---- MODULE Spec2Model ----
(***************************************************************************)
(* cli/rslint: the lint orchestrator (lint_files), the severity remapper   *)
(* (remap_diagnostics_to_level) and the rule explanations                  *)
(* (ExplanationRunner), as state machines.                                 *)
(*                                                                         *)
(*   Spec         lint_files, one run from the call to the return          *)
(*   SpecRemap    remap_diagnostics_to_level on bounded inputs             *)
(*   SpecExplain  ExplanationRunner::new, render and print                 *)
(*   SpecStrip    strip_config_or_extra_examples on bounded documents      *)
(***************************************************************************)
EXTENDS Integers, Sequences, FiniteSets, TLC

VARIABLES
  \* ---- lint_files (mod.rs) ----
  pc,            \* position of the main thread in lint_files
  args,          \* the argument vector
  files,         \* walker.files: the ids of the discovered files, 1..files
  joined,        \* handle.join(): what the configuration thread returned
  store,         \* the rule store handed to lint_file
  task,          \* per file: state of its task in the parallel fan-out
  results,       \* Vec<LintResult> collected from the fan-out
  failures, warnings, successes, overall,
  aggregated,    \* TRUE once lines 128-141 have run
  stderr,        \* diagnostics the main thread rendered, in order
  eprintln_log,  \* number of "Failed to emit linter diagnostic" lines
  stdout,        \* lines printed by output_overall and the hint
  ret,           \* the value lint_files returned
  emitted,       \* diagnostics the emission loop has gone through
  panicAt,       \* where the run panicked, "" while it has not
  \* ---- remap_diagnostics_to_level alone ----
  rpc, rdiags, rorig, rlevel,
  \* ---- ExplanationRunner (explain.rs) ----
  epc,             \* position in new / render / print
  requested,       \* the rule names the caller asked for
  rule_names,      \* self.rule_names
  rules,           \* self.rules: the fetched documents
  fetch_idx,       \* rule names the loop of new has gone through
  caller,          \* who called render: "render" (the caller) or "print"
  render_calls,    \* calls of render made by the caller
  overflow_checks, \* whether the build checks integer overflow
  ereported,       \* rule names an error was printed for
  eprinted,        \* lines printed by print
  epanicAt,        \* where the explain run panicked, "" while it has not
  \* ---- strip_config_or_extra_examples alone ----
  spc,             \* "call", "once", "twice", "panicked", "panicked again"
  sdoc,            \* the document as fetched
  sonce,           \* the document after one application
  stwice,          \* the document after two applications
  schecks          \* whether the build checks integer overflow

lintVars ==
  <<pc, args, files, joined, store, task, results, failures, warnings,
    successes, overall, aggregated, stderr, eprintln_log, stdout, ret,
    emitted, panicAt>>
remapVars == <<rpc, rdiags, rorig, rlevel>>
explainVars ==
  <<epc, requested, rule_names, rules, fetch_idx, caller, render_calls,
    overflow_checks, ereported, eprinted, epanicAt>>
stripVars == <<spc, sdoc, sonce, stwice, schecks>>
vars == <<lintVars, remapVars, explainVars, stripVars>>
nonLint == <<remapVars, explainVars, stripVars>>
nonRemap == <<lintVars, explainVars, stripVars>>
nonExplain == <<lintVars, remapVars, stripVars>>
nonStrip == <<lintVars, remapVars, explainVars>>

-----------------------------------------------------------------------------
(* Bounds of the model *)

MaxFiles == 3      \* files discovery may return
MaxDiags == 2      \* diagnostics the rule engine produces in one run, fatal or not
MaxLen == 3        \* length of a diagnostic sequence handed to the remapper
MaxMsg == 3        \* fragments of a configuration error message
RenderWrites == 2  \* writes one render call performs on the terminal
MaxRules == 2      \* rule names in one explain request
MaxRenderCalls == 1 \* calls of render a caller makes before print
MaxTokens == 3     \* fragments a document handed to the strip stage is made of

-----------------------------------------------------------------------------
(* Data *)

Severity == {"Bug", "Error", "Warning", "Note"}
RuleLevel == {"Error", "Warning", "Off"}
RuleNames == {"no-empty", "no-debugger"}

\* A diagnostic: severity, the rule (code) it comes from, the file, its
\* position n in the group the engine produced, and message and notes.
Diag(sev, code, file, n, title, notes) ==
  [severity |-> sev, code |-> code, file_id |-> file, n |-> n,
   title |-> title, notes |-> notes]

RECURSIVE SumOver(_, _)
SumOver(f, S) ==
  IF S = {} THEN 0
  ELSE LET x == CHOOSE y \in S : TRUE IN f[x] + SumOver(f, S \ {x})

RECURSIVE Concat(_)
Concat(ss) == IF ss = <<>> THEN <<>> ELSE Head(ss) \o Concat(Tail(ss))

\* The rule groups of a result are walked in one fixed order.
RuleOrder == <<"no-debugger", "no-empty">>

-----------------------------------------------------------------------------
(* remap_diagnostics_to_level, mod.rs 194-206 *)

\* The match arm of one iteration: Error | Bug if level == Warning.
Remap_PromotesWarnings(d, level) ==
  IF d.severity \in {"Error", "Bug"} /\ level = "Warning"
    THEN [d EXCEPT !.severity = "Warning"]
    ELSE IF d.severity = "Warning" /\ level = "Error"
      THEN [d EXCEPT !.severity = "Error"]
      ELSE d

Remap_IgnoresLevel(d, level) ==
  IF d.severity \in {"Error", "Bug"}
    THEN [d EXCEPT !.severity = "Warning"]
    ELSE d

\* A loop that writes the diagnostics back in reverse order.
Remap_Reverses(diagnostics, level) ==
  [i \in 1..Len(diagnostics) |->
     IF diagnostics[Len(diagnostics) + 1 - i].severity \in {"Error", "Bug"}
          /\ level = "Warning"
       THEN [diagnostics[Len(diagnostics) + 1 - i] EXCEPT
               !.severity = "Warning"]
       ELSE diagnostics[Len(diagnostics) + 1 - i]]

\* An arm that also rewrites the message of the diagnostic it downgrades.
Remap_RetitlesDowngraded(d, level) ==
  IF d.severity \in {"Error", "Bug"} /\ level = "Warning"
    THEN [d EXCEPT !.severity = "Warning", !.title = <<"warning">>]
    ELSE d

remap_one(d, level) ==
  IF d.severity \in {"Error", "Bug"} /\ level = "Warning"
    THEN [d EXCEPT !.severity = "Warning"]
    ELSE d

\* for diagnostic in diagnostics.iter_mut() { ... }
remap_diagnostics_to_level(diagnostics, level) ==
  [i \in 1..Len(diagnostics) |-> remap_one(diagnostics[i], level)]

-----------------------------------------------------------------------------
(* rslint_core: LintResult::outcome, Outcome::merge, LintResult::diagnostics *)

\* Outcome of a sequence of diagnostics: any Error/Bug is a Failure, else any
\* Warning is a Warning, else Success.
OutcomeOfDiags(ds) ==
  IF \E i \in 1..Len(ds) : ds[i].severity \in {"Error", "Bug"} THEN "Failure"
  ELSE IF \E i \in 1..Len(ds) : ds[i].severity = "Warning" THEN "Warning"
  ELSE "Success"

\* result.diagnostics(): the diagnostics of every rule group.
diagnostics(result) ==
  Concat([i \in 1..Len(RuleOrder) |-> result.rule_diagnostics[RuleOrder[i]]])

outcome(result) == OutcomeOfDiags(diagnostics(result))

OutcomeRank(o) == CASE o = "Failure" -> 2 [] o = "Warning" -> 1 [] OTHER -> 0

\* Outcome::merge: the maximum under Failure > Warning > Success.
merge(outcomes) ==
  IF \E i \in 1..Len(outcomes) : outcomes[i] = "Failure" THEN "Failure"
  ELSE IF \E i \in 1..Len(outcomes) : outcomes[i] = "Warning" THEN "Warning"
  ELSE "Success"

-----------------------------------------------------------------------------
(* Configuration, mod.rs 49-86 *)

\* Fragments of a configuration error message: plain text, the location
\* marker that location_regex matches, the did-you-mean fragment that regex
\* matches.
TEXT == "unknown field"
LOCATION == " at line 3"
DID_YOU_MEAN == ". did you mean 'rules'?"
MsgTokens == {TEXT, LOCATION, DID_YOU_MEAN}
Messages == UNION {[1..k -> MsgTokens] : k \in 1..MaxMsg}

DefaultLevel == [r \in RuleNames |-> "Error"]

JoinResult(kind, has_rules, level, msg) ==
  [kind |-> kind, rules |-> has_rules, level |-> level, msg |-> msg]

Pending == JoinResult("Pending", FALSE, DefaultLevel, <<>>)

\* What handle.join() can hand back: Err (the thread panicked), Ok(None),
\* Ok(Some(Ok(cfg))) with or without a rules table, Ok(Some(Err(err))).
JoinOutcomes ==
  {JoinResult("JoinErr", FALSE, DefaultLevel, <<>>),
   JoinResult("NoFile", FALSE, DefaultLevel, <<>>),
   JoinResult("Config", FALSE, DefaultLevel, <<>>)}
  \cup {JoinResult("Config", TRUE, l, <<>>) : l \in [RuleNames -> RuleLevel]}
  \cup {JoinResult("TomlErr", FALSE, DefaultLevel, m) : m \in Messages}

\* config.as_ref().and_then(|cfg| cfg.rules.as_ref()) is Some
config_rules(cfg) == cfg.kind = "Config" /\ cfg.rules

rule_level_by_name(cfg, rule_name) == cfg.level[rule_name]

\* cfg.store(): the rules the configuration leaves on; a rule at level Off
\* is not in the store.  CstRuleStore::new().builtins(): every rule.
cfg_store(cfg) == {r \in RuleNames : cfg.level[r] # "Off"}
builtins == RuleNames

\* Regex::find: the first match, 0 for None.
find(msg, token) ==
  IF \E i \in 1..Len(msg) : msg[i] = token
    THEN CHOOSE i \in 1..Len(msg) :
           msg[i] = token /\ \A j \in 1..(i - 1) : msg[j] # token
    ELSE 0

\* String::replace_range(range, "")
remove_at(msg, i) == SubSeq(msg, 1, i - 1) \o SubSeq(msg, i + 1, Len(msg))

\* Lines 58-73, given that the location marker was found at loc.
config_diagnostic(err, loc) ==
  LET old == SubSeq(err, 1, loc - 1)
      found == find(old, DID_YOU_MEAN)
  IN IF found # 0
       THEN Diag("Error", "config", 0, 0, remove_at(old, found),
                 <<"help: did you mean 'rules'?">>)
       ELSE Diag("Error", "config", 0, 0, old, <<>>)

-----------------------------------------------------------------------------
(* The rule engine, lint_file: one LintResult per file, or a fatal diagnostic *)

EmptyGroups == [r \in RuleNames |-> <<>>]

LintResult(fatal, file, groups) ==
  [fatal |-> fatal, file_id |-> file, rule_diagnostics |-> groups]

NoResult == LintResult(FALSE, 0, EmptyGroups)

SevSeqs(n) == UNION {[1..k -> Severity] : k \in 0..n}

MkGroup(file, rule, sevs) ==
  [i \in 1..Len(sevs) |-> Diag(sevs[i], rule, file, i, <<>>, <<>>)]

GroupLens(g) == SumOver([r \in RuleNames |-> Len(g[r])], RuleNames)

\* What lint_file may return for a file when the engine may still produce
\* budget diagnostics: Err(diagnostic), which is one of them, or Ok(result)
\* with diagnostics of the rules of the store.
\* The severities of up to b diagnostics, by rule.
GroupChoices[b \in 0..MaxDiags] ==
  {h \in [RuleNames -> SevSeqs(b)] : GroupLens(h) <= b}

EngineResults(file, active, budget) ==
  {LintResult(TRUE, file, EmptyGroups) : b \in {budget} \ {0}}
  \cup {LintResult(FALSE, file, [r \in RuleNames |-> MkGroup(file, r, g[r])]) :
          g \in {h \in GroupChoices[budget] :
                   \A r \in RuleNames \ active : h[r] = <<>>}}

\* written counts the writes of a render that is under way.
Task(tpc, res, written, render) ==
  [pc |-> tpc, res |-> res, written |-> written, render |-> render]

\* Diagnostics the engine has produced so far in this run, the fatal ones
\* included.
Produced ==
  SumOver([f \in 1..Len(task) |->
             Len(diagnostics(task[f].res))
               + (IF task[f].res.fatal THEN 1 ELSE 0)],
          1..Len(task))

-----------------------------------------------------------------------------
(* lint_files, mod.rs 44-160 *)

Panic(where) ==
  /\ pc' = "panicked"
  /\ panicAt' = where

\* Line 45: args.len() == 0 && args[0] == "-".  The second operand is
\* evaluated only when the vector is empty, and then indexes out of bounds;
\* for a non-empty vector the condition is false and todo!() is skipped.
CheckArgs ==
  /\ pc = "start"
  /\ IF Len(args) = 0
       THEN Panic("args[0]: index out of bounds")
       ELSE pc' = "discover" /\ UNCHANGED panicAt
  /\ UNCHANGED <<nonLint, args, files, joined, store, task, results, failures,
                 warnings, successes, overall, aggregated, stderr,
                 eprintln_log, stdout, ret, emitted>>

\* Lines 49-50: the configuration thread is started, then
\* collect_files(args)? returns the error of a failed discovery.
DiscoveryFails ==
  /\ pc = "discover"
  /\ args' = <<>>   \* moved into collect_files
  /\ pc' = "returned"
  /\ ret' = "Err"
  /\ UNCHANGED <<nonLint, files, joined, store, task, results, failures,
                 warnings, successes, overall, aggregated, stderr,
                 eprintln_log, stdout, emitted, panicAt>>

Discover ==
  /\ pc = "discover"
  /\ \E n \in 0..MaxFiles :
       /\ files' = n
       /\ task' = [f \in 1..n |-> Task("lint", NoResult, 0, "none")]
  /\ args' = <<>>   \* moved into collect_files
  /\ pc' = "join"
  /\ UNCHANGED <<nonLint, joined, store, results, failures, warnings,
                 successes, overall, aggregated, stderr, eprintln_log,
                 stdout, ret, emitted, panicAt>>

\* Line 51
Join ==
  /\ pc = "join"
  /\ joined' \in JoinOutcomes
  /\ pc' = "config"
  /\ UNCHANGED <<nonLint, args, files, store, task, results, failures, warnings,
                 successes, overall, aggregated, stderr, eprintln_log,
                 stdout, ret, emitted, panicAt>>

\* Lines 53-76: Ok(Some(Err(err))).  location_regex.find(..).unwrap()
\* panics on a message without the marker; otherwise one diagnostic goes
\* through emit_diagnostic (29-42), which logs a failed render, and the run
\* returns Ok(()).
ConfigError ==
  /\ pc = "config"
  /\ joined.kind = "TomlErr"
  /\ LET loc == find(joined.msg, LOCATION)
     IN IF loc = 0
          THEN /\ Panic("location_regex.find(..).unwrap()")
               /\ UNCHANGED <<stderr, eprintln_log, ret>>
          ELSE /\ \E ok \in BOOLEAN :
                    IF ok
                      THEN /\ stderr' = Append(stderr,
                                          config_diagnostic(joined.msg, loc))
                           /\ UNCHANGED eprintln_log
                      ELSE /\ eprintln_log' = eprintln_log + 1
                           /\ UNCHANGED stderr
               /\ pc' = "returned"
               /\ ret' = "Ok"
               /\ UNCHANGED panicAt
  /\ UNCHANGED <<nonLint, args, files, joined, store, task, results, failures,
                 warnings, successes, overall, aggregated, stdout, emitted>>

\* Lines 77-86: joined.unwrap().map(|res| res.unwrap()), then the store.
ConfigLoaded ==
  /\ pc = "config"
  /\ joined.kind # "TomlErr"
  /\ IF joined.kind = "JoinErr"
       THEN Panic("joined.unwrap()") /\ UNCHANGED store
       ELSE /\ store' = IF config_rules(joined) THEN cfg_store(joined)
                        ELSE builtins
            /\ pc' = "check_files"
            /\ UNCHANGED panicAt
  /\ UNCHANGED <<nonLint, args, files, joined, task, results, failures, warnings,
                 successes, overall, aggregated, stderr, eprintln_log,
                 stdout, ret, emitted>>

\* Lines 88-91: lint_err! renders through emit(..).expect(..) (217-223).
NoFiles ==
  /\ pc = "check_files"
  /\ files = 0
  /\ \E ok \in BOOLEAN :
       IF ok
         THEN /\ stderr' = Append(stderr,
                  Diag("Error", "", 0, 0, <<"No matching files found">>, <<>>))
              /\ pc' = "returned"
              /\ ret' = "Ok"
              /\ UNCHANGED panicAt
         ELSE /\ Panic("lint_err!: Failed to throw linter diagnostic")
              /\ UNCHANGED <<stderr, ret>>
  /\ UNCHANGED <<nonLint, args, files, joined, store, task, results, failures,
                 warnings, successes, overall, aggregated, eprintln_log,
                 stdout, emitted>>

StartFanout ==
  /\ pc = "check_files"
  /\ files # 0
  /\ pc' = "fanout"
  /\ UNCHANGED <<nonLint, args, files, joined, store, task, results, failures,
                 warnings, successes, overall, aggregated, stderr,
                 eprintln_log, stdout, ret, emitted, panicAt>>

\* Lines 96-105: the task of file f calls lint_file.
LintFile(f) ==
  /\ pc = "fanout"
  /\ task[f].pc = "lint"
  /\ \E r \in EngineResults(f, store, MaxDiags - Produced) :
       task' = [task EXCEPT ![f] =
                  Task(IF r.fatal THEN "emit" ELSE "done", r, 0, "none")]
  /\ UNCHANGED <<nonLint, pc, args, files, joined, store, results, failures,
                 warnings, successes, overall, aggregated, stderr,
                 eprintln_log, stdout, ret, emitted, panicAt>>

\* Lines 106-109: the task of a file that failed fatally renders the
\* diagnostic with emit_diagnostic (29-42): one write after the other on
\* the shared stream, a failed write ends the render and is logged.
EmitFatal(f) ==
  /\ pc = "fanout"
  /\ task[f].pc = "emit"
  /\ \E ok \in BOOLEAN :
       IF ok
         THEN /\ task' = [task EXCEPT ![f] =
                   IF task[f].written + 1 = RenderWrites
                     THEN Task("done", @.res, 0, "ok")
                     ELSE Task("emit", @.res, @.written + 1, "none")]
              /\ UNCHANGED eprintln_log
         ELSE /\ task' = [task EXCEPT ![f] = Task("done", @.res, 0, "failed")]
              /\ eprintln_log' = eprintln_log + 1
  /\ UNCHANGED <<nonLint, pc, args, files, joined, store, results, failures,
                 warnings, successes, overall, aggregated, stderr, stdout,
                 ret, emitted, panicAt>>

\* A fan-out that stops collecting at the first file that failed fatally.
Survivors_StopAtFatal(tasks) ==
  LET all == [f \in 1..Len(tasks) |-> tasks[f].res]
      Before(f) == \A g \in 1..f : ~all[g].fatal
  IN [i \in 1..Cardinality({f \in 1..Len(tasks) : Before(f)}) |-> all[i]]

\* filter_map keeps the Ok results; collect builds the vector.
survivors(tasks) ==
  LET all == [f \in 1..Len(tasks) |-> tasks[f].res]
      IsOk(r) == ~r.fatal
  IN SelectSeq(all, IsOk)

\* Lines 106-114, once every task is through.
Collect ==
  /\ pc = "fanout"
  /\ \A f \in 1..files : task[f].pc = "done"
  /\ results' = survivors(task)
  /\ pc' = "remap"
  /\ UNCHANGED <<nonLint, args, files, joined, store, task, failures, warnings,
                 successes, overall, aggregated, stderr, eprintln_log,
                 stdout, ret, emitted, panicAt>>

\* Lines 117-126 for one result.
remap_result(result, cfg) ==
  IF config_rules(cfg)
    THEN [result EXCEPT !.rule_diagnostics =
            [r \in RuleNames |->
               remap_diagnostics_to_level(@[r], rule_level_by_name(cfg, r))]]
    ELSE result

\* A run that goes on to the counts without reclassifying the results.
Reclassify_LeavesResults ==
  /\ pc = "remap"
  /\ pc' = "aggregate"
  /\ UNCHANGED <<nonLint, args, files, joined, store, task, results, failures,
                 warnings, successes, overall, aggregated, stderr,
                 eprintln_log, stdout, ret, emitted, panicAt>>

Reclassify ==
  /\ pc = "remap"
  /\ results' = [i \in 1..Len(results) |-> remap_result(results[i], joined)]
  /\ pc' = "aggregate"
  /\ UNCHANGED <<nonLint, args, files, joined, store, task, failures, warnings,
                 successes, overall, aggregated, stderr, eprintln_log,
                 stdout, ret, emitted, panicAt>>

\* A count that stops at the first result with another outcome.
Count_TakeWhile(rs, o) ==
  Cardinality({i \in 1..Len(rs) : \A j \in 1..i : outcome(rs[j]) = o})

\* results.iter().filter(|res| res.outcome() == o).count()
count_outcome(rs, o) ==
  Cardinality({i \in 1..Len(rs) : outcome(rs[i]) = o})

\* Lines 128-141
Aggregate ==
  /\ pc = "aggregate"
  /\ failures' = count_outcome(results, "Failure")
  /\ warnings' = count_outcome(results, "Warning")
  /\ successes' = count_outcome(results, "Success")
  /\ overall' = merge([i \in 1..Len(results) |-> outcome(results[i])])
  /\ aggregated' = TRUE
  /\ pc' = "emit"
  /\ UNCHANGED <<nonLint, args, files, joined, store, task, results, stderr,
                 eprintln_log, stdout, ret, emitted, panicAt>>

\* The diagnostics the emission loop walks: result by result.
emission_order(rs) == Concat([i \in 1..Len(rs) |-> diagnostics(rs[i])])

\* Lines 143-153: the loop renders the diagnostics one after the other with
\* emit(..).expect("Failed to throw diagnostic"); it goes through all of
\* them, or panics at the first render that fails, after k good ones.
EmitResults ==
  /\ pc = "emit"
  /\ \E k \in 0..Len(emission_order(results)) :
       /\ stderr' = stderr \o SubSeq(emission_order(results), 1, k)
       /\ emitted' = k
       /\ IF k < Len(emission_order(results))
            THEN Panic("emit(..).expect: Failed to throw diagnostic")
            ELSE pc' = "summary" /\ UNCHANGED panicAt
  /\ UNCHANGED <<nonLint, args, files, joined, store, task, results, failures,
                 warnings, successes, overall, aggregated, eprintln_log,
                 stdout, ret>>

SummaryLine(f, w, s) == [line |-> "Outcome", fail |-> f, warn |-> w, success |-> s]
HintLine == [line |-> "help: explain", fail |-> 0, warn |-> 0, success |-> 0]

\* Lines 155-159: output_overall, the hint, Ok(()).
Summary ==
  /\ pc = "summary"
  /\ stdout' = <<SummaryLine(failures, warnings, successes)>>
                 \o (IF overall = "Failure" THEN <<HintLine>> ELSE <<>>)
  /\ ret' = "Ok"
  /\ pc' = "returned"
  /\ UNCHANGED <<nonLint, args, files, joined, store, task, results, failures,
                 warnings, successes, overall, aggregated, stderr,
                 eprintln_log, emitted, panicAt>>

ArgVectors == {<<>>, <<"-">>, <<"src">>}

LintIdle ==
  /\ pc = "idle"
  /\ args = <<>>
  /\ files = 0
  /\ joined = Pending
  /\ store = {}
  /\ task = <<>>
  /\ results = <<>>
  /\ failures = 0 /\ warnings = 0 /\ successes = 0
  /\ overall = "Success"
  /\ aggregated = FALSE
  /\ stderr = <<>>
  /\ eprintln_log = 0
  /\ stdout = <<>>
  /\ ret = ""
  /\ emitted = 0
  /\ panicAt = ""

RemapIdle ==
  /\ rpc = "idle"
  /\ rdiags = <<>>
  /\ rorig = <<>>
  /\ rlevel = "Error"

ExplainIdle ==
  /\ epc = "idle"
  /\ requested = <<>>
  /\ rule_names = <<>>
  /\ rules = <<>>
  /\ fetch_idx = 0
  /\ caller = ""
  /\ render_calls = 0
  /\ overflow_checks = FALSE
  /\ ereported = <<>>
  /\ eprinted = <<>>
  /\ epanicAt = ""

StripIdle ==
  /\ spc = "idle"
  /\ sdoc = <<>>
  /\ sonce = <<>>
  /\ stwice = <<>>
  /\ schecks = FALSE

Init ==
  /\ pc = "start"
  /\ args \in ArgVectors
  /\ files = 0
  /\ joined = Pending
  /\ store = {}
  /\ task = <<>>
  /\ results = <<>>
  /\ failures = 0 /\ warnings = 0 /\ successes = 0
  /\ overall = "Success"
  /\ aggregated = FALSE
  /\ stderr = <<>>
  /\ eprintln_log = 0
  /\ stdout = <<>>
  /\ ret = ""
  /\ emitted = 0
  /\ panicAt = ""
  /\ RemapIdle
  /\ ExplainIdle
  /\ StripIdle

Next ==
  \/ CheckArgs
  \/ DiscoveryFails
  \/ Discover
  \/ Join
  \/ ConfigError
  \/ ConfigLoaded
  \/ NoFiles
  \/ StartFanout
  \/ \E f \in 1..files : LintFile(f)
  \/ \E f \in 1..files : EmitFatal(f)
  \/ Collect
  \/ Reclassify
  \/ Aggregate
  \/ EmitResults
  \/ Summary

Spec == Init /\ [][Next]_vars

-----------------------------------------------------------------------------
(* remap_diagnostics_to_level on its own *)

RemapInputs ==
  {[i \in 1..Len(sevs) |->
      Diag(sevs[i], CHOOSE r \in RuleNames : TRUE, 1, i, <<>>, <<>>)] :
     sevs \in SevSeqs(MaxLen)}

InitRemap ==
  /\ LintIdle
  /\ ExplainIdle
  /\ StripIdle
  /\ rpc = "call"
  /\ rdiags \in RemapInputs
  /\ rorig = rdiags
  /\ rlevel \in RuleLevel

RemapCall ==
  /\ rpc = "call"
  /\ rdiags' = remap_diagnostics_to_level(rdiags, rlevel)
  /\ rpc' = "returned"
  /\ UNCHANGED <<nonRemap, rorig, rlevel>>

NextRemap == RemapCall

SpecRemap == InitRemap /\ [][NextRemap]_vars

-----------------------------------------------------------------------------
(* ExplanationRunner, explain.rs *)

\* rslint_core::get_rule_by_name and CstRule::group: the rule registry.
Registry == [r \in {"no-undef", "no-empty"} |->
               IF r = "no-undef" THEN "errors" ELSE "style"]
Resolves(name) == name \in DOMAIN Registry
ExplainNames == DOMAIN Registry \cup {"totally-bogus-rule"}
Requests == UNION {[1..k -> ExplainNames] : k \in 0..MaxRules}

\* The fixed length of the prelude, rule.replace_range(0..70, "")
PreludeLen == 70

\* Documents are sequences of characters.
CONFIG_MARK == <<"#", " ", "C", "o", "n", "f", "i", "g">>
DETAILS_MARK == <<"<", "d", "e", "t", "a", "i", "l", "s", ">">>
Filler(n) == [i \in 1..n |-> "-"]
Bodies ==
  {<<"a">>,
   <<"a", "\n">> \o CONFIG_MARK \o <<"\n", "b">>,
   <<"a", "\n">> \o DETAILS_MARK \o <<"b">>,
   CONFIG_MARK \o <<"\n", "b">>,
   Filler(PreludeLen) \o <<"z">>}
\* What the documentation host may serve: a prelude and a body, or a
\* document shorter than the prelude.
DocTexts ==
  {Filler(PreludeLen) \o b : b \in Bodies} \cup {Filler(PreludeLen - 1)}

\* A fetched document: its text, the rule it was fetched for, the rewrite
\* stages applied to it and the links appended to it.
Doc(of, text, stages, links) ==
  [of |-> of, text |-> text, stages |-> stages, links |-> links]
NoDoc == Doc("", <<>>, <<>>, <<>>)

Link(base, group, name) == [base |-> base, group |-> group, name |-> name]

\* fetch_doc_file (134-153): what one call may come to for a rule name.
\* None for a name that does not resolve, a client that cannot be created
\* or a failed fetch; a panic on a redirect, on 304 and on a body that is not
\* UTF-8; the document otherwise.
FetchOutcome(kind, text) == [kind |-> kind, text |-> text]
fetch_doc_file(rule) ==
  IF ~Resolves(rule)
    THEN {FetchOutcome("None", <<>>)}
    ELSE {FetchOutcome("None", <<>>),
          FetchOutcome("Redirect", <<>>),
          FetchOutcome("NotModified", <<>>),
          FetchOutcome("NonUtf8", <<>>)}
         \cup {FetchOutcome("Some", t) : t \in DocTexts}

\* str::find: the byte offset of the first match, -1 for None.
find_str(text, pat) ==
  LET At(i) == i + Len(pat) <= Len(text)
               /\ SubSeq(text, i + 1, i + Len(pat)) = pat
  IN IF \E i \in 0..Len(text) : At(i)
       THEN CHOOSE i \in 0..Len(text) : At(i) /\ \A j \in 0..(i - 1) : ~At(j)
       ELSE -1

\* The two bytes of a character that takes two bytes in UTF-8.
LEAD == "\\xC3"
CONT == "\\xA9"

\* str::is_char_boundary(n): the start, the end, or a byte that does not
\* continue a character.
is_char_boundary(text, n) ==
  n = 0 \/ n = Len(text) \/ (n < Len(text) /\ text[n + 1] # CONT)

\* A stage that cuts the marker out of the text and keeps what follows it.
Truncate_CutsMarkerOut(text, pat, checks) ==
  IF find_str(text, pat) = -1
    THEN [ok |-> TRUE, text |-> text, why |-> ""]
    ELSE [ok |-> TRUE,
          text |-> SubSeq(text, 1, find_str(text, pat))
                     \o SubSeq(text, find_str(text, pat) + Len(pat) + 1,
                               Len(text)),
          why |-> ""]

\* rule.truncate(idx - 1) for the marker found at idx (78-83).  idx - 1 on a
\* usize with idx = 0 panics in a build that checks overflow and wraps to
\* the largest usize otherwise, and String::truncate leaves a string alone
\* when the new length is larger than its length; it panics when the new
\* length is inside a character.
Stripped(ok, text, why) == [ok |-> ok, text |-> text, why |-> why]
truncate_before(text, pat, checks) ==
  LET idx == find_str(text, pat)
  IN IF idx = -1 THEN Stripped(TRUE, text, "")
     ELSE IF idx = 0
       THEN IF checks
              THEN Stripped(FALSE, text,
                            "idx - 1: attempt to subtract with overflow")
              ELSE Stripped(TRUE, text, "")
       ELSE IF ~is_char_boundary(text, idx - 1)
         THEN Stripped(FALSE, text,
                       "truncate(idx - 1): not a char boundary")
         ELSE Stripped(TRUE, SubSeq(text, 1, idx - 1), "")

\* One iteration of strip_config_or_extra_examples (77-84).
strip_config_or_extra_examples_one(text, checks) ==
  LET c == truncate_before(text, CONFIG_MARK, checks)
  IN IF ~c.ok THEN c ELSE truncate_before(c.text, DETAILS_MARK, checks)

EPanic(where) ==
  /\ epc' = "panicked"
  /\ epanicAt' = where

\* new (27-46): one iteration of the loop over the requested names.
Fetch ==
  /\ epc = "new"
  /\ fetch_idx < Len(requested)
  /\ LET rule == requested[fetch_idx + 1]
     IN \E res \in fetch_doc_file(rule) :
          /\ fetch_idx' = fetch_idx + 1
          /\ CASE res.kind = "Some" ->
                    /\ rules' = Append(rules, Doc(rule, res.text, <<>>, <<>>))
                    /\ UNCHANGED <<ereported, epc, epanicAt>>
               [] res.kind = "None" ->
                    /\ ereported' = Append(ereported, rule)
                    /\ UNCHANGED <<rules, epc, epanicAt>>
               [] res.kind = "Redirect" ->
                    /\ EPanic("Unexpected redirect while fetching rule docs")
                    /\ UNCHANGED <<rules, ereported>>
               [] res.kind = "NotModified" ->
                    /\ EPanic("Unexpected 304(Not modified) result")
                    /\ UNCHANGED <<rules, ereported>>
               [] OTHER ->
                    /\ EPanic("Unexpected non-utf8 rule docs")
                    /\ UNCHANGED <<rules, ereported>>
  /\ UNCHANGED <<nonExplain, requested, rule_names, caller, render_calls,
                 overflow_checks, eprinted>>

\* new (42-45): Self { rules: docs, rule_names: rules }
Construct ==
  /\ epc = "new"
  /\ fetch_idx = Len(requested)
  /\ rule_names' = requested
  /\ epc' = "ready"
  /\ UNCHANGED <<nonExplain, requested, rules, fetch_idx, caller,
                 render_calls, overflow_checks, ereported, eprinted,
                 epanicAt>>

\* The caller calls the public render.
CallRender ==
  /\ epc = "ready"
  /\ render_calls < MaxRenderCalls
  /\ render_calls' = render_calls + 1
  /\ caller' = "render"
  /\ epc' = "strip_rule_preludes"
  /\ UNCHANGED <<nonExplain, requested, rule_names, rules, fetch_idx,
                 overflow_checks, ereported, eprinted, epanicAt>>

\* The caller calls print, which starts with self.render() (125).
CallPrint ==
  /\ epc = "ready"
  /\ caller' = "print"
  /\ epc' = "strip_rule_preludes"
  /\ UNCHANGED <<nonExplain, requested, rule_names, rules, fetch_idx,
                 render_calls, overflow_checks, ereported, eprinted,
                 epanicAt>>

Staged(d, stage) == [d EXCEPT !.stages = Append(@, stage)]

\* strip_rule_preludes (48-52): replace_range(0..70, "") panics on a
\* document shorter than 70 bytes.
strip_rule_preludes ==
  /\ epc = "strip_rule_preludes"
  /\ IF \E i \in 1..Len(rules) : Len(rules[i].text) < PreludeLen
       THEN /\ EPanic("replace_range(0..70): out of range")
            /\ UNCHANGED rules
       ELSE /\ rules' = [i \in 1..Len(rules) |->
                 Staged([rules[i] EXCEPT
                           !.text = SubSeq(@, PreludeLen + 1, Len(@))],
                        "strip_rule_preludes")]
            /\ epc' = "strip_config_or_extra_examples"
            /\ UNCHANGED epanicAt
  /\ UNCHANGED <<nonExplain, requested, rule_names, fetch_idx, caller,
                 render_calls, overflow_checks, ereported, eprinted>>

\* strip_config_or_extra_examples (76-85)
strip_config_or_extra_examples ==
  /\ epc = "strip_config_or_extra_examples"
  /\ LET out == [i \in 1..Len(rules) |->
                   strip_config_or_extra_examples_one(rules[i].text,
                                                     overflow_checks)]
     IN IF \E i \in 1..Len(rules) : ~out[i].ok
          THEN /\ EPanic(out[CHOOSE i \in 1..Len(rules) :
                               ~out[i].ok /\ \A j \in 1..(i - 1) : out[j].ok
                            ].why)
               /\ UNCHANGED rules
          ELSE /\ rules' = [i \in 1..Len(rules) |->
                    Staged([rules[i] EXCEPT !.text = out[i].text],
                           "strip_config_or_extra_examples")]
               /\ epc' = "replace_headers"
               /\ UNCHANGED epanicAt
  /\ UNCHANGED <<nonExplain, requested, rule_names, fetch_idx, caller,
                 render_calls, overflow_checks, ereported, eprinted>>

\* replace_headers (54-63), replace_code_blocks (65-74) and
\* replace_inline_code_blocks (87-101): each rewrites every document once.
Rewrite(stage, next) ==
  /\ epc = stage
  /\ rules' = [i \in 1..Len(rules) |-> Staged(rules[i], stage)]
  /\ epc' = next
  /\ UNCHANGED <<nonExplain, requested, rule_names, fetch_idx, caller,
                 render_calls, overflow_checks, ereported, eprinted,
                 epanicAt>>

replace_headers == Rewrite("replace_headers", "replace_code_blocks")
replace_code_blocks ==
  Rewrite("replace_code_blocks", "replace_inline_code_blocks")
replace_inline_code_blocks ==
  Rewrite("replace_inline_code_blocks", "append_link_to_docs")

\* The name zipped with the document at position i (104).
zipped_name(names, i) == names[i]

\* append_link_to_docs (103-113): the documents zipped with self.rule_names;
\* get_rule_by_name(&name).unwrap() panics on a name that does not resolve.
append_link_to_docs ==
  /\ epc = "append_link_to_docs"
  /\ LET n == IF Len(rules) < Len(rule_names) THEN Len(rules)
              ELSE Len(rule_names)
     IN IF \E i \in 1..n : ~Resolves(zipped_name(rule_names, i))
          THEN /\ EPanic("get_rule_by_name(&name).unwrap()")
               /\ UNCHANGED rules
          ELSE /\ rules' = [i \in 1..Len(rules) |->
                    IF i <= n
                      THEN LET name == zipped_name(rule_names, i)
                           IN Staged([rules[i] EXCEPT !.links =
                                  Append(@, Link("WEBSITE_DOCS_BASE",
                                                 Registry[name], name))],
                                "append_link_to_docs")
                      ELSE rules[i]]
               /\ epc' = IF caller = "print" THEN "print" ELSE "ready"
               /\ UNCHANGED epanicAt
  /\ UNCHANGED <<nonExplain, requested, rule_names, fetch_idx, caller,
                 render_calls, overflow_checks, ereported, eprinted>>

Line(kind, d) == [line |-> kind, doc |-> d]

\* A print loop that takes the documents from the back of the vector.
PrintRule_LastFirst ==
  /\ epc = "print"
  /\ rules # <<>>
  /\ eprinted' = eprinted \o <<Line("----------", NoDoc),
                                Line("doc", rules[Len(rules)])>>
  /\ rules' = SubSeq(rules, 1, Len(rules) - 1)
  /\ UNCHANGED <<nonExplain, epc, requested, rule_names, fetch_idx, caller,
                 render_calls, overflow_checks, ereported, epanicAt>>

\* print (126-129): one iteration prints the rule of dashes and a document.
PrintRule ==
  /\ epc = "print"
  /\ rules # <<>>
  /\ eprinted' = eprinted \o <<Line("----------", NoDoc), Line("doc", Head(rules))>>
  /\ rules' = Tail(rules)
  /\ UNCHANGED <<nonExplain, epc, requested, rule_names, fetch_idx, caller,
                 render_calls, overflow_checks, ereported, epanicAt>>

PrintDone ==
  /\ epc = "print"
  /\ rules = <<>>
  /\ epc' = "done"
  /\ UNCHANGED <<nonExplain, requested, rule_names, rules, fetch_idx, caller,
                 render_calls, overflow_checks, ereported, eprinted,
                 epanicAt>>

InitExplain ==
  /\ LintIdle
  /\ RemapIdle
  /\ StripIdle
  /\ epc = "new"
  /\ requested \in Requests
  /\ rule_names = <<>>
  /\ rules = <<>>
  /\ fetch_idx = 0
  /\ caller = ""
  /\ render_calls = 0
  /\ overflow_checks \in BOOLEAN
  /\ ereported = <<>>
  /\ eprinted = <<>>
  /\ epanicAt = ""

NextExplain ==
  \/ Fetch
  \/ Construct
  \/ CallRender
  \/ CallPrint
  \/ strip_rule_preludes
  \/ strip_config_or_extra_examples
  \/ replace_headers
  \/ replace_code_blocks
  \/ replace_inline_code_blocks
  \/ append_link_to_docs
  \/ PrintRule
  \/ PrintDone

SpecExplain == InitExplain /\ [][NextExplain]_vars

-----------------------------------------------------------------------------
(* strip_config_or_extra_examples on its own *)

\* Documents made of up to MaxTokens fragments: a letter, a newline, a
\* character of two bytes, and the two markers.
StripTokens == {<<"a">>, <<"\n">>, <<LEAD, CONT>>, CONFIG_MARK, DETAILS_MARK}
StripDocs ==
  {Concat(ts) : ts \in UNION {[1..k -> StripTokens] : k \in 0..MaxTokens}}

InitStrip ==
  /\ LintIdle
  /\ RemapIdle
  /\ ExplainIdle
  /\ spc = "call"
  /\ sdoc \in StripDocs
  /\ sonce = <<>>
  /\ stwice = <<>>
  /\ schecks \in BOOLEAN

\* The stage is applied to the document.
StripOnce ==
  /\ spc = "call"
  /\ LET out == strip_config_or_extra_examples_one(sdoc, schecks)
     IN IF out.ok
          THEN sonce' = out.text /\ spc' = "once"
          ELSE sonce' = sonce /\ spc' = "panicked"
  /\ UNCHANGED <<nonStrip, sdoc, stwice, schecks>>

\* The stage is applied to its own result.
StripAgain ==
  /\ spc = "once"
  /\ LET out == strip_config_or_extra_examples_one(sonce, schecks)
     IN IF out.ok
          THEN stwice' = out.text /\ spc' = "twice"
          ELSE stwice' = stwice /\ spc' = "panicked again"
  /\ UNCHANGED <<nonStrip, sdoc, sonce, schecks>>

NextStrip ==
  \/ StripOnce
  \/ StripAgain

SpecStrip == InitStrip /\ [][NextStrip]_vars

-----------------------------------------------------------------------------
(* Properties of remap_diagnostics_to_level (SpecRemap) *)

SameButSeverity(d, e) == [d EXCEPT !.severity = e.severity] = e

\* C1: with level Warning every Error or Bug diagnostic ends as Warning and
\* every Warning or Note diagnostic keeps its severity; with level Error no
\* severity changes; the sequence keeps its length and the order of its
\* elements.
C1_RemapContract ==
  rpc = "returned" =>
    /\ Len(rdiags) = Len(rorig)
    /\ \A i \in 1..Len(rorig) :
         /\ SameButSeverity(rdiags[i], rorig[i])
         /\ rlevel = "Warning" /\ rorig[i].severity \in {"Error", "Bug"}
              => rdiags[i].severity = "Warning"
         /\ rlevel = "Warning" /\ rorig[i].severity \in {"Warning", "Note"}
              => rdiags[i].severity = rorig[i].severity
         /\ rlevel = "Error" => rdiags[i].severity = rorig[i].severity

\* A call with level Warning on <<Bug, Note, Error>> has returned.
C1_Witness ==
  /\ rpc = "returned"
  /\ rlevel = "Warning"
  /\ Len(rorig) = 3
  /\ rorig[1].severity = "Bug"
  /\ rorig[2].severity = "Note"
  /\ rorig[3].severity = "Error"
  /\ rdiags[1].severity = "Warning"
  /\ rdiags[2].severity = "Note"
  /\ rdiags[3].severity = "Warning"

-----------------------------------------------------------------------------
(* Properties of lint_files (Spec) *)

Fatal == {f \in 1..files : task[f].res.fatal}
NonFatal == {f \in 1..files : ~task[f].res.fatal}
Clean == {f \in 1..files :
            ~task[f].res.fatal /\ diagnostics(task[f].res) = <<>>}
FanoutOver == pc \in {"remap", "aggregate", "emit", "summary"} \/ aggregated

\* C2: files whose rule-engine call fails fatally do not stop the batch:
\* every file is processed, each fatal diagnostic goes through the renderer,
\* the fatal files are left out of the results, and the three counts add up
\* to the number of files that did not fail fatally.
C2_FatalFilesDoNotAbort ==
  /\ FanoutOver =>
       /\ \A f \in 1..files : task[f].pc = "done" /\ task[f].res.file_id = f
       /\ \A f \in Fatal : task[f].render \in {"ok", "failed"}
       /\ {results[i].file_id : i \in 1..Len(results)} = NonFatal
       /\ Len(results) = Cardinality(NonFatal)
  /\ aggregated => failures + warnings + successes = Cardinality(NonFatal)

\* One fatal file and two clean ones: 0 fail, 0 warn, 2 success, Success.
C2_Witness ==
  /\ pc = "returned"
  /\ files = 3
  /\ Cardinality(Fatal) = 1
  /\ \A f \in Fatal : task[f].render = "ok"
  /\ Cardinality(Clean) = 2
  /\ failures = 0 /\ warnings = 0 /\ successes = 2
  /\ overall = "Success"
  /\ stdout = <<SummaryLine(0, 0, 2)>>

\* C4: whatever the text of a malformed-configuration error, the run emits
\* one configuration diagnostic, lints no file, prints no summary and
\* returns normally.
C4_MalformedConfigNeverCrashes ==
  joined.kind = "TomlErr" /\ pc # "config" =>
    /\ pc = "returned"
    /\ ret = "Ok"
    /\ Len(stderr) + eprintln_log = 1
    /\ \A f \in 1..files : task[f].pc = "lint"
    /\ stdout = <<>>

\* C5: when discovery yields no file and the configuration loaded, the run
\* reports one error diagnostic, lints nothing, prints no summary and
\* returns normally.
C5_NoFilesReturnsNormally ==
  /\ files = 0
  /\ joined.kind \in {"NoFile", "Config"}
  /\ pc \notin {"config", "check_files"}
  => /\ pc = "returned"
     /\ ret = "Ok"
     /\ Len(stderr) = 1
     /\ results = <<>>
     /\ stdout = <<>>

\* C6: a call with no argument or with the single argument "-" fails loudly
\* in its first step, before configuration load and discovery start; it
\* does not go on with "-" as a path.
C6_StdinPlaceholderFailsLoudly ==
  [][pc = "start" /\ args \in {<<>>, <<"-">>} => pc' = "panicked"]_vars

\* What a file is counted as: the outcome of its engine result after
\* reclassification.
FileOutcome(f) == outcome(remap_result(task[f].res, joined))
MaxRank(S) == CHOOSE m \in S : \A x \in S : x <= m

\* C7: the three counts and the overall outcome depend only on which
\* outcomes the surviving files have, not on the order of the results: each
\* count is the number of surviving files with that outcome, and the overall
\* outcome is the maximum under Failure > Warning > Success, Success when no
\* result survives.
C7_AggregationOrderIndependent ==
  aggregated =>
    /\ failures = Cardinality({f \in NonFatal : FileOutcome(f) = "Failure"})
    /\ warnings = Cardinality({f \in NonFatal : FileOutcome(f) = "Warning"})
    /\ successes = Cardinality({f \in NonFatal : FileOutcome(f) = "Success"})
    /\ OutcomeRank(overall) =
         MaxRank({OutcomeRank(FileOutcome(f)) : f \in NonFatal} \cup {0})

\* A Warning result delivered before a Failure result.
C7_Witness ==
  /\ aggregated
  /\ Len(results) >= 2
  /\ outcome(results[1]) = "Warning"
  /\ outcome(results[2]) = "Failure"
  /\ failures = 1 /\ warnings = 1
  /\ overall = "Failure"

HasError(ds) == \E i \in 1..Len(ds) : ds[i].severity \in {"Error", "Bug"}

\* C8: no severity is promoted at run level: a file whose engine-produced
\* diagnostics hold no Error and no Bug is not counted as a Failure after
\* reclassification, whatever the configuration.
C8_NoPromotion ==
  aggregated =>
    /\ \A i \in 1..Len(results) :
         ~HasError(diagnostics(task[results[i].file_id].res))
           => outcome(results[i]) # "Failure"
    /\ failures <=
         Cardinality({f \in NonFatal : HasError(diagnostics(task[f].res))})

\* Two clean files and one file whose only diagnostic is a Warning of a rule
\* configured at level Error: 0 fail, 1 warn, 2 success, Warning.
C8_Witness ==
  /\ pc = "returned"
  /\ files = 3
  /\ Cardinality(Clean) = 2
  /\ \E f \in 1..files : \E r \in RuleNames :
       /\ ~task[f].res.fatal
       /\ Len(diagnostics(task[f].res)) = 1
       /\ Len(task[f].res.rule_diagnostics[r]) = 1
       /\ task[f].res.rule_diagnostics[r][1].severity = "Warning"
       /\ config_rules(joined)
       /\ rule_level_by_name(joined, r) = "Error"
  /\ failures = 0 /\ warnings = 1 /\ successes = 2
  /\ overall = "Warning"

\* C9: the value lint_files returns for a run whose overall outcome is
\* Failure differs from Ok(()), the value it returns for a run whose overall
\* outcome is Success or Warning.
C9_OutcomeIsReturned ==
  pc = "returned" /\ aggregated /\ overall = "Failure" => ret # "Ok"

\* C10: a render that fails never aborts the run, at none of the places
\* where lint_files renders a diagnostic.
C10_RenderFailureNeverAborts ==
  panicAt # "emit(..).expect: Failed to throw diagnostic"

-----------------------------------------------------------------------------
(* Properties of the explain path (SpecExplain) *)

PrintedFor ==
  LET IsDoc(l) == l.line = "doc"
      docs == SelectSeq(eprinted, IsDoc)
  IN [i \in 1..Len(docs) |-> docs[i].doc.of]

\* C3: a rule name that does not resolve or cannot be fetched, at any
\* position of the request, does not end the run abnormally: new and print
\* get to the end and print the document of every rule that was fetched.
C3_FailedNameIsRecoverable ==
  /\ epanicAt # "get_rule_by_name(&name).unwrap()"
  /\ epc = "done" => Len(PrintedFor) + Len(ereported) = Len(requested)

-----------------------------------------------------------------------------
(* The terminal stream during the fan-out (Spec) *)

\* The render call of the task of file f has written and is not through.
RenderUnderWay(f) == task[f].pc = "emit" /\ task[f].written > 0

\* C11: render calls exclude each other on the terminal stream: no two tasks
\* of the fan-out are in the middle of the writes of their render calls at
\* the same time.
C11_RendersMutuallyExclusive ==
  \A f, g \in 1..files :
    f # g => ~(RenderUnderWay(f) /\ RenderUnderWay(g))

-----------------------------------------------------------------------------
(* Properties of the explanations (SpecExplain), continued *)

\* The documents print has printed, in order.
PrintedDocs == SelectSeq([i \in 1..Len(eprinted) |-> eprinted[i].doc],
                         LAMBDA d : d # NoDoc)

\* C12: every link appended to a printed document is built from the group
\* and the name of the rule that document was fetched for.
C12_LinkOfSameRule ==
  \A i \in 1..Len(PrintedDocs) :
    \A j \in 1..Len(PrintedDocs[i].links) :
      /\ PrintedDocs[i].links[j].name = PrintedDocs[i].of
      /\ PrintedDocs[i].links[j].group = Registry[PrintedDocs[i].of]

\* The elements of seq at the positions of S, in the order of seq.
Restrict(seq, S) ==
  [i \in 1..Cardinality(S) |->
     seq[CHOOSE j \in S : Cardinality({k \in S : k <= j}) = i]]

\* The rules of the documents fetched so far: those printed, then those
\* still held.
FetchedFor == PrintedFor \o [i \in 1..Len(rules) |-> rules[i].of]

\* The requested names the loop of new is through with.
Handled ==
  IF epanicAt \in {"Unexpected redirect while fetching rule docs",
                   "Unexpected 304(Not modified) result",
                   "Unexpected non-utf8 rule docs"}
    THEN fetch_idx - 1
    ELSE fetch_idx

\* C13: the names are fetched one after the other in the order of the
\* request, so the fetched documents and the reported names are the request
\* so far split in two without reordering; print writes the rule of dashes
\* before each document and the documents in the order of the request.
C13_OutputInRequestOrder ==
  /\ \E S \in SUBSET (1..Handled) :
       /\ FetchedFor = Restrict(requested, S)
       /\ ereported = Restrict(requested, (1..Handled) \ S)
  /\ \A i \in 1..Len(eprinted) :
       eprinted[i].line = IF i % 2 = 1 THEN "----------" ELSE "doc"
  /\ Len(eprinted) % 2 = 0

\* Two different rules were requested, both were fetched and printed.
C13_Witness ==
  /\ epc = "done"
  /\ requested = <<"no-undef", "no-empty">>
  /\ PrintedFor = requested
  /\ Len(eprinted) = 4

-----------------------------------------------------------------------------
(* Order and timing inside lint_files (Spec) *)

\* The diagnostics of file f the emission loop has rendered, in order.
Rendered(f) == SelectSeq(stderr, LAMBDA d : d.file_id = f)

\* The diagnostics the engine produced for file f, in its order.
Engine(f) == diagnostics(task[f].res)

\* C14: the diagnostics of a file keep the order of the engine through
\* reclassification and rendering: a surviving result holds the engine's
\* diagnostics position by position, severities aside, and what the emission
\* loop has rendered of a file is those diagnostics from the first one on,
\* all of them once the loop is through.
C14_FileOrderPreserved ==
  /\ \A i \in 1..Len(results) :
       /\ Len(diagnostics(results[i])) = Len(Engine(results[i].file_id))
       /\ \A j \in 1..Len(diagnostics(results[i])) :
            SameButSeverity(diagnostics(results[i])[j],
                            Engine(results[i].file_id)[j])
  /\ \A f \in 1..files :
       /\ Len(Rendered(f)) <= Len(Engine(f))
       /\ \A j \in 1..Len(Rendered(f)) :
            SameButSeverity(Rendered(f)[j], Engine(f)[j])
       /\ pc \in {"summary", "returned"} /\ aggregated
            => Len(Rendered(f)) = Len(Engine(f))

\* A file with two diagnostics of one rule (Error, then Note) under a
\* configuration that puts the rule at level Warning was rendered.
C14_Witness ==
  /\ pc = "returned"
  /\ config_rules(joined)
  /\ \E f \in 1..files : \E r \in RuleNames :
       /\ rule_level_by_name(joined, r) = "Warning"
       /\ Len(task[f].res.rule_diagnostics[r]) = 2
       /\ task[f].res.rule_diagnostics[r][1].severity = "Error"
       /\ task[f].res.rule_diagnostics[r][2].severity = "Note"
       /\ Len(Rendered(f)) = 2
       /\ Rendered(f)[1].severity = "Warning" /\ Rendered(f)[1].n = 1
       /\ Rendered(f)[2].severity = "Note" /\ Rendered(f)[2].n = 2

-----------------------------------------------------------------------------
(* The text transform pipeline (SpecExplain) *)

\* The stages of render (116-121), in order.
Pipeline ==
  <<"strip_rule_preludes", "strip_config_or_extra_examples",
    "replace_headers", "replace_code_blocks", "replace_inline_code_blocks",
    "append_link_to_docs">>

\* C15: whatever calls of render and print were made, every printed
\* document went through each of the six stages once, in the order of the
\* pipeline.
C15_StagesOnceInOrder ==
  \A i \in 1..Len(PrintedDocs) : PrintedDocs[i].stages = Pipeline

-----------------------------------------------------------------------------
(* Properties of strip_config_or_extra_examples (SpecStrip) *)

\* The offset of the first marker of either kind, -1 without a marker.
FirstMarker(text) ==
  LET c == find_str(text, CONFIG_MARK)
      d == find_str(text, DETAILS_MARK)
  IN IF c = -1 THEN d
     ELSE IF d = -1 THEN c
     ELSE IF c < d THEN c ELSE d

\* The text up to the character before the first marker, that character
\* left out; the whole text without a marker.
UpToFirstMarker(text) ==
  IF FirstMarker(text) = -1 THEN text
  ELSE SubSeq(text, 1, FirstMarker(text) - 1)

\* C16: the stage completes on every document, and leaves the text up to
\* the character before the earlier of the first "# Config" and the first
\* "<details>", or the whole text when there is no marker.
C16_TruncatesAtFirstMarker ==
  /\ spc # "panicked"
  /\ spc \in {"once", "twice"} => sonce = UpToFirstMarker(sdoc)

\* C17: when the stage has completed on a document, it completes on its own
\* result and leaves it as it is.
C17_StripIdempotent ==
  /\ spc # "panicked again"
  /\ spc = "twice" => stwice = sonce

\* The stage has been applied twice to a document with a letter, a newline
\* and a marker, which the first application cut down to the letter.
C17_Witness ==
  /\ spc = "twice"
  /\ sdoc = <<"a", "\n">> \o CONFIG_MARK
  /\ sonce = <<"a">>
  /\ stwice = <<"a">>

-----------------------------------------------------------------------------
(* Properties of strip_rule_preludes (SpecExplain) *)

\* C18: the prelude stage completes on every fetched document, one shorter
\* than the prelude included, and takes exactly the first PreludeLen bytes
\* off a document that has as many.
C18_PreludeLengthChecked ==
  [][epc = "strip_rule_preludes" =>
       /\ epc' # "panicked"
       /\ Len(rules') = Len(rules)
       /\ \A i \in 1..Len(rules) :
            Len(rules[i].text) >= PreludeLen =>
              rules'[i].text = SubSeq(rules[i].text, PreludeLen + 1,
                                      Len(rules[i].text))]_vars

-----------------------------------------------------------------------------
(* Frame of remap_diagnostics_to_level (SpecRemap) *)

\* Note < Warning < Error < Bug
SeverityRank(sev) ==
  CASE sev = "Note" -> 0 [] sev = "Warning" -> 1 [] sev = "Error" -> 2
    [] OTHER -> 3

\* C19: for each of the levels Error, Warning and Off the call leaves every
\* diagnostic at its position with a severity that is not above the one it
\* had, and with every other field as it was.
C19_OnlyDowngrades ==
  rpc = "returned" =>
    /\ DOMAIN rdiags = DOMAIN rorig
    /\ \A i \in DOMAIN rorig :
         /\ SeverityRank(rdiags[i].severity)
              <= SeverityRank(rorig[i].severity)
         /\ \A fld \in DOMAIN rorig[i] \ {"severity"} :
              rdiags[i][fld] = rorig[i][fld]
         /\ DOMAIN rdiags[i] = DOMAIN rorig[i]

\* A call with level Warning on <<Error, Warning, Bug>> has returned three
\* warnings.
C19_Witness ==
  /\ rpc = "returned"
  /\ rlevel = "Warning"
  /\ [i \in 1..Len(rorig) |-> rorig[i].severity]
       = <<"Error", "Warning", "Bug">>
  /\ [i \in 1..Len(rdiags) |-> rdiags[i].severity]
       = <<"Warning", "Warning", "Warning">>
  /\ \A i \in 1..3 : rdiags[i].n = i

-----------------------------------------------------------------------------
(* Reclassification comes first (Spec) *)

\* Every Error or Bug diagnostic the engine produced for file f comes from a
\* rule the configuration puts at level Warning, and there is one.
OnlyWarningLevelErrors(f) ==
  /\ HasError(Engine(f))
  /\ config_rules(joined)
  /\ \A j \in 1..Len(Engine(f)) :
       Engine(f)[j].severity \in {"Error", "Bug"}
         => rule_level_by_name(joined, Engine(f)[j].code) = "Warning"

\* C20: once the counts are taken, the results are the reclassified results
\* of the fan-out and stay so; the counts and the overall outcome are those
\* of the reclassified results and what is rendered is their diagnostics; a
\* file whose Error and Bug diagnostics all come from rules at level Warning
\* counts as a warning, and the hint is printed only when a file fails.
C20_ReclassifiedBeforeUse ==
  aggregated =>
    /\ results = [i \in 1..Len(survivors(task)) |->
                    remap_result(survivors(task)[i], joined)]
    /\ failures = Cardinality({i \in 1..Len(results) :
                                 outcome(results[i]) = "Failure"})
    /\ warnings = Cardinality({i \in 1..Len(results) :
                                 outcome(results[i]) = "Warning"})
    /\ successes = Cardinality({i \in 1..Len(results) :
                                  outcome(results[i]) = "Success"})
    /\ overall = (IF failures > 0 THEN "Failure"
                  ELSE IF warnings > 0 THEN "Warning" ELSE "Success")
    /\ Len(stderr) <= Len(emission_order(results))
    /\ stderr = SubSeq(emission_order(results), 1, Len(stderr))
    /\ \A i \in 1..Len(results) :
         OnlyWarningLevelErrors(results[i].file_id)
           => outcome(results[i]) = "Warning"
    /\ pc = "returned" =>
         ((\E k \in 1..Len(stdout) : stdout[k] = HintLine) <=> failures > 0)

\* A run over one file with one Error diagnostic of a rule at level Warning
\* has returned: one warning, no failure, a Warning rendered, no hint.
C20_Witness ==
  /\ pc = "returned"
  /\ files = 1
  /\ OnlyWarningLevelErrors(1)
  /\ Len(Engine(1)) = 1
  /\ Engine(1)[1].severity = "Error"
  /\ failures = 0 /\ warnings = 1 /\ successes = 0
  /\ overall = "Warning"
  /\ Len(stderr) = 1 /\ stderr[1].severity = "Warning"
  /\ stdout = <<SummaryLine(0, 1, 0)>>

====
